---- MODULE Spec2Model ----
(***************************************************************************)
(* RPGMaker-Tauri: the save commands of src-tauri/src/lib.rs and the       *)
(* localhost asset server of src-tauri/src/external_localhost_plugin.      *)
(*                                                                         *)
(* Text is modelled as a sequence of tokens.  A token is a run of          *)
(* characters that the code never looks inside ("file1", "index.html") or  *)
(* one of the characters and markers it does look at ("/", "..", "%2F",    *)
(* ".rpgsave", "</head>").  A path is such a sequence, as a PathBuf is a   *)
(* string; the operating system's view of it is the list of components     *)
(* between the separators.                                                 *)
(***************************************************************************)
EXTENDS Naturals, Sequences, FiniteSets, TLC

\* ------------------------------------------------------------------ bounds
\* longest save content, in characters
MaxDataLen == 1

\* ------------------------------------------------------- persistence state
VARIABLES
    saveDirExists,  \* whether the save directory exists on disk
    saveFiles,      \* the regular files in it: file name -> content or NoFile
    lastOp,         \* the command that ran last, with its result
    prevOp          \* the command that ran before it

saveVars == <<saveDirExists, saveFiles, lastOp, prevOp>>

\* ------------------------------------------------------------ listener state
VARIABLES
    on_request,   \* Builder.on_request: whether a hook is configured
    pc,           \* where the server thread is
    reqUrl,       \* req.url() of the request being handled, NoUrl before the first
    finalPath,    \* final_path
    asset,        \* file_content, after the transformer
    transformed,  \* whether inject_polyfills ran for this request
    headers,      \* response.headers
    events,       \* what has happened for this request, in order
    resp,         \* the response handed to req.respond, NoResp before
    setupResult,  \* what the plugin's setup closure returned, NoResult before it ran
    hookWrote,    \* history: the add_header calls the hook made for this request, in order
    prevStatus    \* history: the status the request before this one was answered with

listenerVars == <<on_request, pc, reqUrl, finalPath, asset, transformed, headers, events, resp,
                  setupResult, hookWrote, prevStatus>>

\* ------------------------------------------------------- transformer as a function
VARIABLES
    doc,      \* a document given to inject_polyfills
    docOut    \* what it returned, NoDoc before

injectVars == <<doc, docOut>>

\* --------------------------------------------------- MIME lookup as a function
VARIABLES
    mimeIn,   \* the extension of a path given to get_mime_type, as it is spelled
    mimeOut   \* the content type returned, NoMime before

mimeVars == <<mimeIn, mimeOut>>

\* ------------------------------------------- save commands running concurrently
VARIABLES
    call,     \* per caller: the command it is in, its arguments, position and result
    found     \* history: what the file held before the first command, NoFile if none

callVars == <<call, found>>

\* ------------------------------------- save commands called with any file name
VARIABLES
    pathCall,  \* the command called and its filename argument, NoCall before
    disk,      \* whether the save directory exists, and the regular files there are
    touched    \* the file the command created, opened or removed, NoNode if none

pathVars == <<pathCall, disk, touched>>

\* the variables outside the save commands and the listener
sideVars == <<injectVars, mimeVars, callVars, pathVars>>

vars == <<saveVars, listenerVars, sideVars>>

\* ------------------------------------------------------------ text helpers
\* str::ends_with for a one-token suffix
EndsWith(s, tok) == Len(s) > 0 /\ s[Len(s)] = tok

\* str::starts_with for a one-token prefix
StartsWith(s, tok) == Len(s) > 0 /\ s[1] = tok

\* all sequences over S of length at most n
SeqsUpTo(S, n) == UNION {[1..k -> S] : k \in 0..n}

\* ------------------------------------------------------------------- paths
NoExt == "<none>"
OtherExt == "<other>"

\* the extension a token ends in, for tokens that are a dot and letters
\* (".rpgsave") or a stem, a dot and letters ("index.html")
TokExt(tok) ==
    CASE tok = ".rpgsave" -> "rpgsave"
      [] tok = "index.html" -> "html"
      [] tok = "p.htm" -> "htm"
      [] tok = "P.HTML" -> "HTML"
      [] tok = "a.png" -> "png"
      [] tok = "s.ogg" -> "ogg"
      [] tok = "u.txt" -> "txt"
      [] OTHER -> NoExt

\* tokens that are only a dot and letters: as a whole file name they are a
\* hidden file without extension
DotTok(tok) == tok = ".rpgsave"

\* Path::extension of a file name: the text after the last dot, none when
\* the name has no dot or only a leading one
Extension(name) ==
    IF name = <<>> \/ name = <<"..">> THEN NoExt
    ELSE LET last == name[Len(name)] IN
         IF TokExt(last) # NoExt
         THEN IF DotTok(last) /\ Len(name) = 1 THEN NoExt ELSE TokExt(last)
         ELSE IF last = ".." THEN ""
         ELSE IF \E i \in 1..(Len(name) - 1) :
                     TokExt(name[i]) # NoExt \/ name[i] = ".."
              THEN OtherExt
              ELSE NoExt

\* PathBuf::join: an absolute argument replaces the base
PathJoin(base, p) ==
    IF StartsWith(p, "/") THEN p
    ELSE IF EndsWith(base, "/") THEN base \o p
    ELSE base \o <<"/">> \o p

RECURSIVE SplitAcc(_, _, _)
SplitAcc(p, cur, acc) ==
    IF p = <<>> THEN (IF cur = <<>> THEN acc ELSE Append(acc, cur))
    ELSE IF Head(p) = "/"
         THEN SplitAcc(Tail(p), <<>>, IF cur = <<>> THEN acc ELSE Append(acc, cur))
         ELSE SplitAcc(Tail(p), Append(cur, Head(p)), acc)

\* the components of a path: the file names between separators
Components(p) == SplitAcc(p, <<>>, <<>>)

\* Path::file_name: the last component, unless it is ".."
FileName(p) ==
    LET c == Components(p) IN
    IF c = <<>> \/ c[Len(c)] = <<"..">> THEN <<>> ELSE c[Len(c)]

\* no file of that name: a value no content equals
NoFile == <<"<absent>">>
SaveSuffix == ".rpgsave"
SaveStems == {"file1", "file2"}
\* the file names the commands are called with: a key, bare or suffixed
FileNames == {<<s>> : s \in SaveStems} \cup {<<s, SaveSuffix>> : s \in SaveStems}
DataChars == {"a"}
Contents == SeqsUpTo(DataChars, MaxDataLen)

\* the managed State<PathBuf>: <exe dir>/saves
save_dir == <<"/", "saves">>

\* the directory entry a path names, when it lies directly in save_dir
SaveEntry(p) ==
    LET c == Components(p) IN
    IF Len(c) = 2 /\ c[1] = <<"saves">> THEN c[2] ELSE <<>>

\* Path::exists
PathExists(files, dirExists, p) ==
    IF Components(p) = Components(save_dir) THEN dirExists
    ELSE dirExists /\ SaveEntry(p) \in DOMAIN files /\ files[SaveEntry(p)] # NoFile

\* a File::create that opens without truncating
FileCreateKeep(files, p) ==
    IF files[SaveEntry(p)] = NoFile THEN [files EXCEPT ![SaveEntry(p)] = <<>>] ELSE files

\* fs::File::create: a new empty file, or the existing one cut to length 0
FileCreate(files, p) == [files EXCEPT ![SaveEntry(p)] = <<>>]

\* Write::write_all from the start of the file just opened
WriteAll(files, p, data) ==
    LET old == files[SaveEntry(p)] IN
    [files EXCEPT ![SaveEntry(p)] =
        data \o (IF Len(old) > Len(data) THEN SubSeq(old, Len(data) + 1, Len(old)) ELSE <<>>)]

\* a remove_file that empties the file and leaves it in place
RemoveFileTruncate(files, p) == [files EXCEPT ![SaveEntry(p)] = <<>>]

\* fs::remove_file
RemoveFile(files, p) == [files EXCEPT ![SaveEntry(p)] = NoFile]

\* Read::read_to_string of a file of the save directory
ReadToString(files, p) == files[SaveEntry(p)]

NoData == <<>>
OpRecord(op, filename, data, before, ok, content, err, names) ==
    [op |-> op, filename |-> filename, data |-> data, before |-> before,
     ok |-> ok, content |-> content, err |-> err, names |-> names]

NoOp == OpRecord("none", <<>>, NoData, NoFile, TRUE, NoData, "", {})

\* what the file named by a command held before the command ran
Before(filename) == saveFiles[filename]

\* a listing without the extension filter
ListedNamesAll(files) == {n \in DOMAIN files : files[n] # NoFile}

\* a listing that returns each kept entry's path, not its file name
ListedNamesWithDir(files) ==
    {PathJoin(save_dir, n) : n \in
        {m \in DOMAIN files : files[m] # NoFile /\ Extension(FileName(PathJoin(save_dir, m))) = "rpgsave"}}

\* the file names read_dir yields that list_saves keeps
ListedNames(files) ==
    {n \in DOMAIN files : files[n] # NoFile /\ Extension(FileName(PathJoin(save_dir, n))) = "rpgsave"}

list_saves ==
    /\ saveDirExists' = TRUE
    /\ UNCHANGED saveFiles
    /\ prevOp' = lastOp
    /\ lastOp' = OpRecord("list", <<>>, NoData, NoFile, TRUE, NoData, "", ListedNames(saveFiles))
    /\ UNCHANGED <<listenerVars, sideVars>>

\* a read_save that makes sure of the directory first, as write_save does
read_save_creating(filename) ==
    LET save_path == PathJoin(save_dir, filename) IN
    /\ saveDirExists' = TRUE
    /\ UNCHANGED saveFiles
    /\ prevOp' = lastOp
    /\ lastOp' =
         IF ~PathExists(saveFiles, saveDirExists, save_path)
         THEN OpRecord("read", filename, NoData, Before(filename), FALSE, NoData,
                       "Save file not found", {})
         ELSE OpRecord("read", filename, NoData, Before(filename), TRUE,
                       ReadToString(saveFiles, save_path), "", {})
    /\ UNCHANGED <<listenerVars, sideVars>>

read_save(filename) ==
    LET save_path == PathJoin(save_dir, filename) IN
    /\ UNCHANGED <<saveDirExists, saveFiles>>
    /\ prevOp' = lastOp
    /\ lastOp' =
         IF ~PathExists(saveFiles, saveDirExists, save_path)
         THEN OpRecord("read", filename, NoData, Before(filename), FALSE, NoData,
                       "Save file not found", {})
         ELSE OpRecord("read", filename, NoData, Before(filename), TRUE,
                       ReadToString(saveFiles, save_path), "", {})
    /\ UNCHANGED <<listenerVars, sideVars>>

\* TauriSaveManager.keyToFilename of the injected payload
keyToFilename(key) ==
    IF EndsWith(key, SaveSuffix) THEN key ELSE Append(key, SaveSuffix)

\* a write_save that appends the save suffix itself
write_save_normalizing(filename, data) ==
    LET file_path == PathJoin(save_dir, keyToFilename(filename)) IN
    /\ saveDirExists' = TRUE
    /\ saveFiles' = WriteAll(FileCreate(saveFiles, file_path), file_path, data)
    /\ prevOp' = lastOp
    /\ lastOp' = OpRecord("write", filename, data, Before(filename), TRUE, NoData, "", {})
    /\ UNCHANGED <<listenerVars, sideVars>>

write_save(filename, data) ==
    LET file_path == PathJoin(save_dir, filename) IN
    /\ saveDirExists' = TRUE
    /\ saveFiles' = WriteAll(FileCreate(saveFiles, file_path), file_path, data)
    /\ prevOp' = lastOp
    /\ lastOp' = OpRecord("write", filename, data, Before(filename), TRUE, NoData, "", {})
    /\ UNCHANGED <<listenerVars, sideVars>>

delete_save(filename) ==
    LET save_path == PathJoin(save_dir, filename) IN
    /\ UNCHANGED saveDirExists
    /\ saveFiles' = IF PathExists(saveFiles, saveDirExists, save_path)
                    THEN RemoveFile(saveFiles, save_path)
                    ELSE saveFiles
    /\ prevOp' = lastOp
    /\ lastOp' = OpRecord("delete", filename, NoData, Before(filename), TRUE, NoData, "", {})
    /\ UNCHANGED <<listenerVars, sideVars>>

SaveInit ==
    /\ saveDirExists = FALSE
    /\ saveFiles = [n \in FileNames |-> NoFile]
    /\ lastOp = NoOp
    /\ prevOp = NoOp

SaveNext ==
    \/ list_saves
    \/ \E filename \in FileNames : read_save(filename)
    \/ \E filename \in FileNames, data \in Contents : write_save(filename, data)
    \/ \E filename \in FileNames : delete_save(filename)


\* ------------------------------------------------------- content transformer
\* the polyfill_script literal, an opaque blob
Payload == "<polyfills>"
HeadClose == "</head>"
BodyOpen == "<body>"
\* a byte that is not valid UTF-8, and U+FFFD that replaces it
BadByte == "\\xFF"
Replacement == "U+FFFD"

\* String::from_utf8_lossy
RECURSIVE FromUtf8Lossy(_)
FromUtf8Lossy(bytes) ==
    IF bytes = <<>> THEN <<>>
    ELSE <<IF Head(bytes) = BadByte THEN Replacement ELSE Head(bytes)>>
         \o FromUtf8Lossy(Tail(bytes))

\* str::contains for a one-token pattern
Contains(s, tok) == \E i \in 1..Len(s) : s[i] = tok

\* str::replace: every occurrence of the pattern, left to right
RECURSIVE Replace(_, _, _)
Replace(s, tok, by) ==
    IF s = <<>> THEN <<>>
    ELSE (IF Head(s) = tok THEN by ELSE <<Head(s)>>) \o Replace(Tail(s), tok, by)

\* a transformer that looks for the body marker first
inject_polyfills_body_first(content) ==
    LET html_content == FromUtf8Lossy(content) IN
    IF Contains(html_content, BodyOpen)
    THEN Replace(html_content, BodyOpen, <<BodyOpen, "\n", Payload>>)
    ELSE IF Contains(html_content, HeadClose)
    THEN Replace(html_content, HeadClose, <<Payload, "\n", HeadClose>>)
    ELSE <<Payload, "\n">> \o html_content

inject_polyfills(content) ==
    LET html_content == FromUtf8Lossy(content) IN
    IF Contains(html_content, HeadClose)
    THEN Replace(html_content, HeadClose, <<Payload, "\n", HeadClose>>)
    ELSE IF Contains(html_content, BodyOpen)
    THEN Replace(html_content, BodyOpen, <<BodyOpen, "\n", Payload>>)
    ELSE <<Payload, "\n">> \o html_content

\* --------------------------------------------------------------- MIME table
\* a lookup that compares the extension as it is spelled
LowerKeepsCase(ext) == ext

\* str::to_lowercase on the extensions of the model: each of them written in
\* capitals or with a capital first letter; lower-case text is left as it is
Lower(ext) ==
    CASE ext = "HTML" -> "html"
      [] ext = "Html" -> "html"
      [] ext = "HTM" -> "htm"
      [] ext = "Htm" -> "htm"
      [] ext = "CSS" -> "css"
      [] ext = "Css" -> "css"
      [] ext = "JS" -> "js"
      [] ext = "Js" -> "js"
      [] ext = "JSON" -> "json"
      [] ext = "Json" -> "json"
      [] ext = "PNG" -> "png"
      [] ext = "Png" -> "png"
      [] ext = "JPG" -> "jpg"
      [] ext = "Jpg" -> "jpg"
      [] ext = "JPEG" -> "jpeg"
      [] ext = "Jpeg" -> "jpeg"
      [] ext = "GIF" -> "gif"
      [] ext = "Gif" -> "gif"
      [] ext = "SVG" -> "svg"
      [] ext = "Svg" -> "svg"
      [] ext = "ICO" -> "ico"
      [] ext = "Ico" -> "ico"
      [] ext = "WOFF" -> "woff"
      [] ext = "Woff" -> "woff"
      [] ext = "WOFF2" -> "woff2"
      [] ext = "Woff2" -> "woff2"
      [] ext = "TTF" -> "ttf"
      [] ext = "Ttf" -> "ttf"
      [] ext = "OTF" -> "otf"
      [] ext = "Otf" -> "otf"
      [] ext = "MP3" -> "mp3"
      [] ext = "Mp3" -> "mp3"
      [] ext = "WAV" -> "wav"
      [] ext = "Wav" -> "wav"
      [] ext = "OGG" -> "ogg"
      [] ext = "Ogg" -> "ogg"
      [] ext = "M4A" -> "m4a"
      [] ext = "M4a" -> "m4a"
      [] ext = "AAC" -> "aac"
      [] ext = "Aac" -> "aac"
      [] ext = "RPGMVO" -> "rpgmvo"
      [] ext = "Rpgmvo" -> "rpgmvo"
      [] ext = "RPGMVM" -> "rpgmvm"
      [] ext = "Rpgmvm" -> "rpgmvm"
      [] ext = "RPGMVP" -> "rpgmvp"
      [] ext = "Rpgmvp" -> "rpgmvp"
      [] ext = "RPGMVW" -> "rpgmvw"
      [] ext = "Rpgmvw" -> "rpgmvw"
      [] ext = "MP4" -> "mp4"
      [] ext = "Mp4" -> "mp4"
      [] ext = "WEBM" -> "webm"
      [] ext = "Webm" -> "webm"
      [] ext = "TXT" -> "txt"
      [] ext = "Txt" -> "txt"
      [] ext = "XML" -> "xml"
      [] ext = "Xml" -> "xml"
      [] ext = "RPGSAVE" -> "rpgsave"
      [] ext = "Rpgsave" -> "rpgsave"
      [] ext = "BIN" -> "bin"
      [] ext = "Bin" -> "bin"
      [] OTHER -> ext

\* a lower-case extension written in lower case, in capitals, or capitalised
Casings == {"lower", "upper", "capital"}
Spelled(base, casing) ==
    IF casing = "lower" THEN base
    ELSE CASE base = "html" -> IF casing = "upper" THEN "HTML" ELSE "Html"
           [] base = "htm" -> IF casing = "upper" THEN "HTM" ELSE "Htm"
           [] base = "css" -> IF casing = "upper" THEN "CSS" ELSE "Css"
           [] base = "js" -> IF casing = "upper" THEN "JS" ELSE "Js"
           [] base = "json" -> IF casing = "upper" THEN "JSON" ELSE "Json"
           [] base = "png" -> IF casing = "upper" THEN "PNG" ELSE "Png"
           [] base = "jpg" -> IF casing = "upper" THEN "JPG" ELSE "Jpg"
           [] base = "jpeg" -> IF casing = "upper" THEN "JPEG" ELSE "Jpeg"
           [] base = "gif" -> IF casing = "upper" THEN "GIF" ELSE "Gif"
           [] base = "svg" -> IF casing = "upper" THEN "SVG" ELSE "Svg"
           [] base = "ico" -> IF casing = "upper" THEN "ICO" ELSE "Ico"
           [] base = "woff" -> IF casing = "upper" THEN "WOFF" ELSE "Woff"
           [] base = "woff2" -> IF casing = "upper" THEN "WOFF2" ELSE "Woff2"
           [] base = "ttf" -> IF casing = "upper" THEN "TTF" ELSE "Ttf"
           [] base = "otf" -> IF casing = "upper" THEN "OTF" ELSE "Otf"
           [] base = "mp3" -> IF casing = "upper" THEN "MP3" ELSE "Mp3"
           [] base = "wav" -> IF casing = "upper" THEN "WAV" ELSE "Wav"
           [] base = "ogg" -> IF casing = "upper" THEN "OGG" ELSE "Ogg"
           [] base = "m4a" -> IF casing = "upper" THEN "M4A" ELSE "M4a"
           [] base = "aac" -> IF casing = "upper" THEN "AAC" ELSE "Aac"
           [] base = "rpgmvo" -> IF casing = "upper" THEN "RPGMVO" ELSE "Rpgmvo"
           [] base = "rpgmvm" -> IF casing = "upper" THEN "RPGMVM" ELSE "Rpgmvm"
           [] base = "rpgmvp" -> IF casing = "upper" THEN "RPGMVP" ELSE "Rpgmvp"
           [] base = "rpgmvw" -> IF casing = "upper" THEN "RPGMVW" ELSE "Rpgmvw"
           [] base = "mp4" -> IF casing = "upper" THEN "MP4" ELSE "Mp4"
           [] base = "webm" -> IF casing = "upper" THEN "WEBM" ELSE "Webm"
           [] base = "txt" -> IF casing = "upper" THEN "TXT" ELSE "Txt"
           [] base = "xml" -> IF casing = "upper" THEN "XML" ELSE "Xml"
           [] base = "rpgsave" -> IF casing = "upper" THEN "RPGSAVE" ELSE "Rpgsave"
           [] base = "bin" -> IF casing = "upper" THEN "BIN" ELSE "Bin"

\* the match of lines 723-752
MimeOf(extension) ==
    CASE extension \in {"html", "htm"} -> "text/html"
      [] extension = "css" -> "text/css"
      [] extension = "js" -> "application/javascript"
      [] extension = "json" -> "application/json"
      [] extension = "png" -> "image/png"
      [] extension \in {"jpg", "jpeg"} -> "image/jpeg"
      [] extension = "gif" -> "image/gif"
      [] extension = "svg" -> "image/svg+xml"
      [] extension = "ico" -> "image/x-icon"
      [] extension = "woff" -> "font/woff"
      [] extension = "woff2" -> "font/woff2"
      [] extension = "ttf" -> "font/ttf"
      [] extension = "otf" -> "font/otf"
      [] extension = "mp3" -> "audio/mpeg"
      [] extension = "wav" -> "audio/wav"
      [] extension = "ogg" -> "audio/ogg"
      [] extension = "m4a" -> "audio/mp4"
      [] extension = "aac" -> "audio/aac"
      [] extension = "rpgmvo" -> "audio/ogg"
      [] extension = "rpgmvm" -> "audio/mp4"
      [] extension = "rpgmvp" -> "image/png"
      [] extension = "rpgmvw" -> "audio/wav"
      [] extension = "mp4" -> "video/mp4"
      [] extension = "webm" -> "video/webm"
      [] extension = "txt" -> "text/plain"
      [] extension = "xml" -> "application/xml"
      [] OTHER -> "application/octet-stream"

\* lines 718-722: no extension is looked up as the empty text
MimeOfExtension(ext) == MimeOf(Lower(IF ext = NoExt THEN "" ELSE ext))

get_mime_type(file_path) == MimeOfExtension(Extension(FileName(file_path)))

\* ------------------------------------------------------------ request target
\* longest request target, in tokens
MaxUrlLen == 3
\* most add_header calls one run of the hook makes
MaxHookWrites == 1

UrlTokens == {"/", "..", "%2F", "%20", "%3F", "<", "?",
              "index.html", "p.htm", "a.png", "s.ogg", "u.txt"}
Urls == SeqsUpTo(UrlTokens, MaxUrlLen) \ {<<>>}

Result(ok, val) == [ok |-> ok, val |-> val]

\* the tokens before the query
RECURSIVE BeforeQuery(_)
BeforeQuery(s) ==
    IF s = <<>> \/ Head(s) = "?" THEN <<>> ELSE <<Head(s)>> \o BeforeQuery(Tail(s))

\* requested_url.parse::<Uri>().map(|uri| uri.path()): a target starting with
\* a separator is a path and a query; any other target without a scheme is an
\* authority, whose path is empty; "<" and the space are no URI characters
ParseUriPath(url) ==
    IF url = <<>> \/ Contains(url, "<") \/ Contains(url, " ") THEN Result(FALSE, <<>>)
    ELSE IF Head(url) = "/" THEN Result(TRUE, BeforeQuery(url))
    ELSE IF \E i \in 1..Len(url) : url[i] \in {"/", "?", "%2F", "%20", "%3F"}
         THEN Result(FALSE, <<>>)
         ELSE Result(TRUE, <<>>)

\* a loop that uses the path as it is written
PercentDecodeNone(s) == s

\* percent_decode_str(..).decode_utf8_lossy()
RECURSIVE PercentDecode(_)
PercentDecode(s) ==
    IF s = <<>> THEN <<>>
    ELSE <<CASE Head(s) = "%2F" -> "/"
             [] Head(s) = "%20" -> " "
             [] Head(s) = "%3F" -> "?"
             [] OTHER -> Head(s)>> \o PercentDecode(Tail(s))

\* a choice of final_path without the default for the empty path
FinalPathKeepsEmpty(decoded) ==
    LET path == IF decoded = <<"/">> THEN <<"/", "index.html">> ELSE decoded
    IN IF StartsWith(path, "/") THEN Tail(path) ELSE path

\* the root path and the leading separator: lines 115-130
FinalPath(decoded) ==
    LET path == IF decoded = <<"/">> THEN <<"/", "index.html">> ELSE decoded
        file_path == IF StartsWith(path, "/") THEN Tail(path) ELSE path
    IN IF file_path = <<>> THEN <<"index.html">> ELSE file_path

\* ----------------------------------------------------------------- the disk
\* the folder lib.rs passes to external_folder
external_folder == <<"/", "game">>

RootComponents == Components(external_folder)
AssetNames == {"index.html", "p.htm", "a.png", "s.ogg", "u.txt"}

\* a path the system resolved, as the list of its components from the root
\* directory; Missing when a component on the way is no directory
Missing == <<<<"<missing>">>>>

\* the directories and the regular files of the machine: the asset root with
\* its files, and a file beside the asset root
IsDir(node) == node = <<>> \/ node = RootComponents
IsFile(node) ==
    \/ \E n \in AssetNames : node = Append(RootComponents, <<n>>)
    \/ node = <<<<"a.png">>>>

\* the bytes of a regular file
FileBytes(node) ==
    IF node = <<<<"a.png">>>> THEN <<"outside">>
    ELSE LET n == node[Len(node)][1] IN
         CASE n = "index.html" -> <<"<head>", HeadClose, BodyOpen, "game">>
           [] n = "p.htm" -> <<BodyOpen, "page">>
           [] OTHER -> <<n, "bytes">>

\* the system's path walk: ".." is the parent, the root is its own parent
RECURSIVE Walk(_, _)
Walk(comps, cur) ==
    IF comps = <<>> THEN cur
    ELSE IF ~IsDir(cur) THEN Missing
    ELSE IF Head(comps) = <<"..">>
         THEN Walk(Tail(comps), IF cur = <<>> THEN <<>> ELSE SubSeq(cur, 1, Len(cur) - 1))
         ELSE Walk(Tail(comps), Append(cur, Head(comps)))

\* the node a path names; a path ending in a separator names directories only
Resolve(p) ==
    LET node == Walk(Components(p), <<>>) IN
    IF EndsWith(p, "/") /\ ~IsDir(node) THEN Missing ELSE node

\* whether the server's user may open the file and read it to its end: one
\* file of the asset root is not readable
CanRead(node) == node # Append(RootComponents, <<"u.txt">>)

NoAsset == [some |-> FALSE, content |-> <<>>, mime_type |-> ""]

\* a loader that hands out what it could read of a file it cannot read
load_external_file_partial(file_path) ==
    LET node == Resolve(file_path) IN
    IF ~(IsDir(node) \/ IsFile(node)) \/ ~IsFile(node) THEN NoAsset
    ELSE [some |-> TRUE, content |-> IF CanRead(node) THEN FileBytes(node) ELSE <<>>,
          mime_type |-> get_mime_type(file_path)]

\* lines 703-714: nothing unless the path exists and is a regular file that
\* opens and reads to its end
load_external_file(file_path) ==
    LET node == Resolve(file_path) IN
    IF ~(IsDir(node) \/ IsFile(node)) \/ ~IsFile(node) THEN NoAsset
    ELSE IF ~CanRead(node) THEN NoAsset
    ELSE [some |-> TRUE, content |-> FileBytes(node), mime_type |-> get_mime_type(file_path)]

NoUrl == <<>>
NoResp == [status |-> 0, body |-> <<>>, headers |-> <<>>]
NoDoc == <<"<not run>">>
NoHeaders == <<>>

LongCache == "public, max-age=31536000"

\* an insert that keeps the value a key already has
add_header_keep_first(h, header, value) ==
    [k \in DOMAIN h \cup {header} |-> IF k \in DOMAIN h THEN h[k] ELSE value]

\* HashMap::insert
add_header(h, header, value) ==
    [k \in DOMAIN h \cup {header} |-> IF k = header THEN value ELSE h[k]]

\* the part of a content type before the slash
MimeCategory(mime_type) ==
    CASE mime_type \in {"audio/mpeg", "audio/wav", "audio/ogg", "audio/mp4", "audio/aac"} -> "audio"
      [] mime_type \in {"image/png", "image/jpeg", "image/gif", "image/svg+xml", "image/x-icon"}
            -> "image"
      [] mime_type \in {"text/html", "text/css", "text/plain"} -> "text"
      [] mime_type \in {"font/woff", "font/woff2", "font/ttf", "font/otf"} -> "font"
      [] mime_type \in {"video/mp4", "video/webm"} -> "video"
      [] OTHER -> "application"

\* mime_type.starts_with("audio/") || mime_type.starts_with("image/")
IsMedia(mime_type) == MimeCategory(mime_type) \in {"audio", "image"}

\* a header assembly that caches every asset
DefaultHeadersCacheAll(mime_type) ==
    LET h1 == add_header(NoHeaders, "Content-Type", mime_type)
        h2 == add_header(h1, "Access-Control-Allow-Origin", "*")
        h3 == add_header(h2, "Access-Control-Allow-Methods", "GET, POST, OPTIONS")
        h4 == add_header(h3, "Access-Control-Allow-Headers", "Content-Type")
    IN add_header(h4, "Cache-Control", LongCache)

\* the header mapping built before the hook runs: lines 155-167
DefaultHeaders(mime_type) ==
    LET h1 == add_header(NoHeaders, "Content-Type", mime_type)
        h2 == add_header(h1, "Access-Control-Allow-Origin", "*")
        h3 == add_header(h2, "Access-Control-Allow-Methods", "GET, POST, OPTIONS")
        h4 == add_header(h3, "Access-Control-Allow-Headers", "Content-Type")
    IN IF IsMedia(mime_type)
       THEN add_header(h4, "Cache-Control", LongCache)
       ELSE h4

\* the add_header calls a hook may make
HookWrites == {<<"Cache-Control", "no-store">>, <<"Cache-Control", LongCache>>,
               <<"X-Hook", "1">>, <<"Bad Key", "1">>, <<"Content-Type", "text/plain">>,
               <<"Content-Type", "caf<U+00E9>">>}

RECURSIVE ApplyWrites(_, _)
ApplyWrites(h, ws) ==
    IF ws = <<>> THEN h
    ELSE ApplyWrites(add_header(h, Head(ws)[1], Head(ws)[2]), Tail(ws))

\* Header::from_bytes: a field name holds no space, a value is ASCII
ValidHeader(header, value) == header # "Bad Key" /\ value # "caf<U+00E9>"

\* a serialisation that gives up on all headers when one is invalid
WireHeadersAllOrNothing(h) ==
    IF \A x \in DOMAIN h : ValidHeader(x, h[x]) THEN h ELSE NoHeaders

\* the headers of the wire response: lines 173-178
WireHeaders(h) ==
    [k \in {x \in DOMAIN h : ValidHeader(x, h[x])} |-> h[k]]

PlainText == add_header(NoHeaders, "Content-Type", "text/plain")

\* final_path.ends_with(".html")
EndsWithDotHtml(final_path) ==
    Len(final_path) > 0 /\ final_path[Len(final_path)] \in {"index.html"}

\* the condition of line 150
InjectCondition(mime_type, final_path) ==
    mime_type = "text/html" /\ EndsWithDotHtml(final_path)

othersQuietL == UNCHANGED <<saveVars, sideVars>>

NoResult == "<not run>"

\* a setup that binds before it returns, and reports the failure
SetupBindsFirst ==
    /\ pc = "built"
    /\ \/ pc' = "accept" /\ setupResult' = "Ok"
       \/ pc' = "dead" /\ setupResult' = "Err"
    /\ UNCHANGED <<on_request, prevStatus, reqUrl, finalPath, asset, transformed, headers, hookWrote, events, resp>>
    /\ othersQuietL

\* the setup closure: it spawns the server thread and returns Ok(()), whatever
\* the thread does later
Setup ==
    /\ pc = "built"
    /\ pc' = "unbound"
    /\ setupResult' = "Ok"
    /\ UNCHANGED <<on_request, prevStatus, reqUrl, finalPath, asset, transformed, headers, hookWrote, events, resp>>
    /\ othersQuietL

\* Server::http(&server_address) succeeds
Bind ==
    /\ pc = "unbound"
    /\ pc' = "accept"
    /\ UNCHANGED <<on_request, setupResult, prevStatus, reqUrl, finalPath, asset, transformed, headers, hookWrote, events, resp>>
    /\ othersQuietL

\* Server::http fails: the thread logs and returns
BindFail ==
    /\ pc = "unbound"
    /\ pc' = "dead"
    /\ UNCHANGED <<on_request, setupResult, prevStatus, reqUrl, finalPath, asset, transformed, headers, hookWrote, events, resp>>
    /\ othersQuietL

\* a server that takes the next request while a file is being loaded
AcceptWhileLoading ==
    /\ pc \in {"accept", "load"}
    /\ pc' = "resolve"
    /\ \E url \in Urls : reqUrl' = url
    /\ UNCHANGED <<on_request, setupResult, prevStatus, finalPath, asset, transformed, headers, hookWrote, events, resp>>
    /\ othersQuietL

\* server.incoming_requests() yields the next request
Accept ==
    /\ pc = "accept"
    /\ pc' = "resolve"
    /\ \E url \in Urls : reqUrl' = url
    /\ UNCHANGED <<on_request, setupResult, prevStatus, finalPath, asset, transformed, headers, hookWrote, events, resp>>
    /\ othersQuietL

\* lines 102-130: parse the target, decode it, choose final_path
ResolvePath ==
    /\ pc = "resolve"
    /\ LET path_result == ParseUriPath(reqUrl) IN
       IF path_result.ok
       THEN /\ finalPath' = FinalPath(PercentDecode(path_result.val))
            /\ pc' = "load"
       ELSE /\ finalPath' = finalPath
            /\ pc' = "respond500"
    /\ UNCHANGED <<on_request, setupResult, prevStatus, reqUrl, asset, transformed, headers, hookWrote, events, resp>>
    /\ othersQuietL

\* lines 132-152: join with the asset root, load, transform HTML
LoadFile ==
    /\ pc = "load"
    /\ LET full_path == PathJoin(external_folder, finalPath)
           file_content == load_external_file(full_path)
       IN IF file_content.some
          THEN /\ transformed' = InjectCondition(file_content.mime_type, finalPath)
               /\ asset' = IF InjectCondition(file_content.mime_type, finalPath)
                           THEN [file_content EXCEPT !.content = inject_polyfills(@)]
                           ELSE file_content
               /\ pc' = "headers"
          ELSE /\ UNCHANGED <<transformed, asset>>
               /\ pc' = "respond404"
    /\ UNCHANGED <<on_request, setupResult, prevStatus, reqUrl, finalPath, headers, hookWrote, events, resp>>
    /\ othersQuietL

\* lines 154-167
SetHeaders ==
    /\ pc = "headers"
    /\ headers' = DefaultHeaders(asset.mime_type)
    /\ UNCHANGED hookWrote
    /\ events' = Append(events, "headers")
    /\ pc' = "hook"
    /\ UNCHANGED <<on_request, setupResult, prevStatus, reqUrl, finalPath, asset, transformed, resp>>
    /\ othersQuietL

\* a loop that runs the hook twice
CallHookTwice ==
    /\ pc = "hook"
    /\ on_request
    /\ \E ws \in SeqsUpTo(HookWrites, MaxHookWrites) :
          /\ headers' = ApplyWrites(headers, ws)
          /\ hookWrote' = ws
    /\ events' = events \o <<"hook", "hook">>
    /\ pc' = "send"
    /\ UNCHANGED <<on_request, setupResult, prevStatus, reqUrl, finalPath, asset, transformed, resp>>
    /\ othersQuietL

\* lines 169-171, a hook configured: it runs and writes what headers it likes
CallHook ==
    /\ pc = "hook"
    /\ on_request
    /\ \E ws \in SeqsUpTo(HookWrites, MaxHookWrites) :
          /\ headers' = ApplyWrites(headers, ws)
          /\ hookWrote' = ws
    /\ events' = Append(events, "hook")
    /\ pc' = "send"
    /\ UNCHANGED <<on_request, setupResult, prevStatus, reqUrl, finalPath, asset, transformed, resp>>
    /\ othersQuietL

\* lines 169-171, no hook configured
SkipHook ==
    /\ pc = "hook"
    /\ ~on_request
    /\ pc' = "send"
    /\ UNCHANGED <<on_request, setupResult, prevStatus, reqUrl, finalPath, asset, transformed, headers, hookWrote, events, resp>>
    /\ othersQuietL

\* a loop that remembers it has served a file and answers the next request
\* for one with Not Modified
Respond200NotModified ==
    /\ pc = "send"
    /\ resp' = IF prevStatus = 200
               THEN [status |-> 304, body |-> <<>>, headers |-> WireHeaders(headers)]
               ELSE [status |-> 200, body |-> asset.content, headers |-> WireHeaders(headers)]
    /\ events' = Append(events, "send")
    /\ pc' = "done"
    /\ UNCHANGED <<on_request, setupResult, prevStatus, reqUrl, finalPath, asset, transformed, headers, hookWrote>>
    /\ othersQuietL

\* lines 173-180
Respond200 ==
    /\ pc = "send"
    /\ resp' = [status |-> 200, body |-> asset.content, headers |-> WireHeaders(headers)]
    /\ events' = Append(events, "send")
    /\ pc' = "done"
    /\ UNCHANGED <<on_request, setupResult, prevStatus, reqUrl, finalPath, asset, transformed, headers, hookWrote>>
    /\ othersQuietL

\* a missing asset answered with an empty 200
Respond404AsOk ==
    /\ pc = "respond404"
    /\ resp' = [status |-> 200, body |-> <<>>, headers |-> PlainText]
    /\ events' = Append(events, "send")
    /\ pc' = "done"
    /\ UNCHANGED <<on_request, setupResult, prevStatus, reqUrl, finalPath, asset, transformed, headers, hookWrote>>
    /\ othersQuietL

\* lines 182-187
Respond404 ==
    /\ pc = "respond404"
    /\ resp' = [status |-> 404, body |-> <<"Not Found">>, headers |-> PlainText]
    /\ events' = Append(events, "send")
    /\ pc' = "done"
    /\ UNCHANGED <<on_request, setupResult, prevStatus, reqUrl, finalPath, asset, transformed, headers, hookWrote>>
    /\ othersQuietL

\* a loop that gives up at a target it cannot parse
Respond500Stops ==
    /\ pc = "respond500"
    /\ resp' = [status |-> 500, body |-> <<"Internal Server Error - URI Parse Error">>,
                headers |-> PlainText]
    /\ events' = Append(events, "send")
    /\ pc' = "dead"
    /\ UNCHANGED <<on_request, setupResult, prevStatus, reqUrl, finalPath, asset, transformed, headers, hookWrote>>
    /\ othersQuietL

\* lines 190-196
Respond500 ==
    /\ pc = "respond500"
    /\ resp' = [status |-> 500, body |-> <<"Internal Server Error - URI Parse Error">>,
                headers |-> PlainText]
    /\ events' = Append(events, "send")
    /\ pc' = "done"
    /\ UNCHANGED <<on_request, setupResult, prevStatus, reqUrl, finalPath, asset, transformed, headers, hookWrote>>
    /\ othersQuietL

\* the end of the loop body: the request and all that was built for it are dropped
EndIteration ==
    /\ pc = "done"
    /\ pc' = "accept"
    /\ reqUrl' = NoUrl
    /\ finalPath' = <<>>
    /\ asset' = NoAsset
    /\ transformed' = FALSE
    /\ headers' = NoHeaders
    /\ hookWrote' = <<>>
    /\ events' = <<>>
    /\ resp' = NoResp
    /\ prevStatus' = resp.status
    /\ UNCHANGED <<on_request, setupResult>>
    /\ othersQuietL

\* no request has been handled
NoRequestYet ==
    /\ reqUrl = NoUrl
    /\ finalPath = <<>>
    /\ asset = NoAsset
    /\ transformed = FALSE
    /\ headers = NoHeaders
    /\ hookWrote = <<>>
    /\ events = <<>>
    /\ resp = NoResp
    /\ prevStatus = 0

\* the plugin as Builder::build returns it: setup has not run
ListenerBuilt ==
    /\ pc = "built"
    /\ setupResult = NoResult
    /\ NoRequestYet

\* the listener after setup, its thread not yet at the bind
ListenerQuiet ==
    /\ pc = "unbound"
    /\ setupResult = "Ok"
    /\ NoRequestYet

InjectQuiet == doc = <<>> /\ docOut = NoDoc

NoMime == "<not run>"
MimeQuiet == mimeIn = "" /\ mimeOut = NoMime

\* no caller is in a command
Idle == [op |-> "none", filename |-> <<>>, data |-> <<>>, pc |-> "idle",
         handle |-> "none", orphan |-> <<>>, ok |-> TRUE, content |-> <<>>, err |-> ""]
Callers == {"c1", "c2"}
CallQuiet == call = [c \in Callers |-> Idle] /\ found = NoFile

\* no file: a value no file's place on the disk equals
NoNode == << <<"<none>">> >>
NoCall == [op |-> "none", filename |-> <<>>, ok |-> TRUE]
PathQuiet == pathCall = NoCall /\ disk = [dir |-> FALSE, files |-> {}] /\ touched = NoNode

SideQuiet == InjectQuiet /\ MimeQuiet /\ CallQuiet /\ PathQuiet

SaveQuiet == SaveInit

Init ==
    /\ on_request \in BOOLEAN
    /\ ListenerBuilt
    /\ SaveQuiet
    /\ SideQuiet

Next ==
    \/ Setup
    \/ Bind
    \/ BindFail
    \/ Accept
    \/ ResolvePath
    \/ LoadFile
    \/ SetHeaders
    \/ CallHook
    \/ SkipHook
    \/ Respond200
    \/ Respond404
    \/ Respond500
    \/ EndIteration

Spec == Init /\ [][Next]_vars

\* the save commands, called one after another
InitSave ==
    /\ SaveInit
    /\ on_request = FALSE
    /\ ListenerQuiet
    /\ SideQuiet

SpecSave == InitSave /\ [][SaveNext]_vars

\* ------------------------------------------- the transformer on every document
\* longest document, in tokens
MaxDocLen == 3
DocTokens == {HeadClose, BodyOpen, "text", BadByte}
Docs == SeqsUpTo(DocTokens, MaxDocLen)

InitInject ==
    /\ doc \in Docs
    /\ docOut = NoDoc
    /\ SaveInit
    /\ on_request = FALSE
    /\ ListenerQuiet
    /\ MimeQuiet
    /\ CallQuiet
    /\ PathQuiet

\* content = inject_polyfills(content)
Inject ==
    /\ docOut = NoDoc
    /\ docOut' = inject_polyfills(doc)
    /\ UNCHANGED <<doc, saveVars, listenerVars, mimeVars, callVars, pathVars>>

NextInject == Inject

SpecInject == InitInject /\ [][NextInject]_vars

\* ------------------------------------------- the MIME lookup on every extension
\* the extensions of the table, in lower case
TableExtensions == {"html", "htm", "css", "js", "json", "png", "jpg", "jpeg", "gif",
                    "svg", "ico", "woff", "woff2", "ttf", "otf", "mp3", "wav", "ogg",
                    "m4a", "aac", "rpgmvo", "rpgmvm", "rpgmvp", "rpgmvw", "mp4",
                    "webm", "txt", "xml"}
\* extensions the table does not have
UnknownExtensions == {"rpgsave", "bin"}

\* what Path::extension can hand to the lookup: an extension of the table or
\* an unknown one, in any casing; the empty extension; none at all
MimeInputs ==
    {Spelled(base, casing) : base \in TableExtensions \cup UnknownExtensions, casing \in Casings}
        \cup {"", NoExt}

InitMime ==
    /\ mimeIn \in MimeInputs
    /\ mimeOut = NoMime
    /\ SaveInit
    /\ on_request = FALSE
    /\ ListenerQuiet
    /\ InjectQuiet
    /\ CallQuiet
    /\ PathQuiet

\* mime_type = get_mime_type(path), for a path with the extension mimeIn
GetMimeType ==
    /\ mimeOut = NoMime
    /\ mimeOut' = MimeOfExtension(mimeIn)
    /\ UNCHANGED <<mimeIn, saveVars, listenerVars, injectVars, callVars, pathVars>>

NextMime == GetMimeType

SpecMime == InitMime /\ [][NextMime]_vars

\* ------------------------------------------ save commands that run concurrently
\* Two callers each run one command on the same file name, system call by
\* system call.  A caller that has opened the file holds a handle: on the
\* file of that name ("linked"), or, once another caller has removed the
\* name, on the file that no name refers to any more ("orphan"), whose
\* content the caller's record then carries.

\* longest content written or found, in characters
MaxConcLen == 2

ConcName == <<"file1", SaveSuffix>>
\* each caller writes text of its own letter; a file found at the start holds
\* text of a third
CallerChar(c) == IF c = "c1" THEN "a" ELSE "b"
ConcData(c) == SeqsUpTo({CallerChar(c)}, MaxConcLen) \ {<<>>}
OldContents == SeqsUpTo({"o"}, MaxConcLen)

InitConc ==
    /\ call = [c \in Callers |-> Idle]
    /\ \/ /\ saveDirExists \in BOOLEAN
          /\ saveFiles = [f \in FileNames |-> NoFile]
       \/ /\ saveDirExists = TRUE
          /\ \E old \in OldContents :
                saveFiles = [f \in FileNames |-> IF f = ConcName THEN old \o <<>> ELSE NoFile]
    /\ found = saveFiles[ConcName]
    /\ lastOp = NoOp
    /\ prevOp = NoOp
    /\ on_request = FALSE
    /\ ListenerQuiet
    /\ InjectQuiet
    /\ MimeQuiet
    /\ PathQuiet

othersQuietC == UNCHANGED <<found, lastOp, prevOp, listenerVars, injectVars, mimeVars, pathVars>>

\* the command returns
Return(c, ok, content, err) ==
    [call EXCEPT ![c].pc = "done", ![c].handle = "none", ![c].orphan = <<>>,
                 ![c].ok = ok, ![c].content = content, ![c].err = err]

\* the handles other callers hold when the name is removed keep the file
Orphaned(calls, by) ==
    [c \in Callers |->
        IF c # by /\ calls[c].handle = "linked"
        THEN [calls[c] EXCEPT !.handle = "orphan", !.orphan = saveFiles[ConcName]]
        ELSE calls[c]]

\* the host dispatches a command
Invoke(c) ==
    /\ call[c].pc = "idle"
    /\ \/ \E data \in ConcData(c) :
            call' = [call EXCEPT ![c].op = "write", ![c].filename = ConcName,
                                 ![c].data = data, ![c].pc = "ensure_dir"]
       \/ call' = [call EXCEPT ![c].op = "delete", ![c].filename = ConcName, ![c].pc = "check"]
       \/ call' = [call EXCEPT ![c].op = "read", ![c].filename = ConcName, ![c].pc = "check"]
    /\ UNCHANGED <<saveDirExists, saveFiles>>
    /\ othersQuietC

\* write_save, lib.rs 65-67: create_dir_all unless the directory exists
WriteEnsureDir(c) ==
    /\ call[c].op = "write" /\ call[c].pc = "ensure_dir"
    /\ saveDirExists' = TRUE
    /\ call' = [call EXCEPT ![c].pc = "create"]
    /\ UNCHANGED saveFiles
    /\ othersQuietC

\* write_save, lib.rs 69-70: File::create
WriteCreate(c) ==
    /\ call[c].op = "write" /\ call[c].pc = "create"
    /\ saveFiles' = FileCreate(saveFiles, PathJoin(save_dir, call[c].filename))
    /\ call' = [call EXCEPT ![c].pc = "write", ![c].handle = "linked"]
    /\ UNCHANGED saveDirExists
    /\ othersQuietC

\* write_save, lib.rs 72-73: write_all through the handle, from its start
WriteData(c) ==
    /\ call[c].op = "write" /\ call[c].pc = "write"
    /\ saveFiles' = IF call[c].handle = "linked"
                    THEN WriteAll(saveFiles, PathJoin(save_dir, call[c].filename), call[c].data)
                    ELSE saveFiles
    /\ call' = Return(c, TRUE, <<>>, "")
    /\ UNCHANGED saveDirExists
    /\ othersQuietC

\* delete_save, lib.rs 80: save_path.exists()
DeleteCheck(c) ==
    /\ call[c].op = "delete" /\ call[c].pc = "check"
    /\ call' = IF PathExists(saveFiles, saveDirExists, PathJoin(save_dir, call[c].filename))
               THEN [call EXCEPT ![c].pc = "remove"]
               ELSE Return(c, TRUE, <<>>, "")
    /\ UNCHANGED <<saveDirExists, saveFiles>>
    /\ othersQuietC

\* delete_save, lib.rs 81-82: fs::remove_file, an error when the name is gone
DeleteRemove(c) ==
    /\ call[c].op = "delete" /\ call[c].pc = "remove"
    /\ IF PathExists(saveFiles, saveDirExists, PathJoin(save_dir, call[c].filename))
       THEN /\ saveFiles' = RemoveFile(saveFiles, PathJoin(save_dir, call[c].filename))
            /\ call' = Orphaned(Return(c, TRUE, <<>>, ""), c)
       ELSE /\ saveFiles' = saveFiles
            /\ call' = Return(c, FALSE, <<>>, "Failed to delete save file")
    /\ UNCHANGED saveDirExists
    /\ othersQuietC

\* read_save, lib.rs 49-51: save_path.exists()
ReadCheck(c) ==
    /\ call[c].op = "read" /\ call[c].pc = "check"
    /\ call' = IF PathExists(saveFiles, saveDirExists, PathJoin(save_dir, call[c].filename))
               THEN [call EXCEPT ![c].pc = "open"]
               ELSE Return(c, FALSE, <<>>, "Save file not found")
    /\ UNCHANGED <<saveDirExists, saveFiles>>
    /\ othersQuietC

\* read_save, lib.rs 53-54: File::open
ReadOpen(c) ==
    /\ call[c].op = "read" /\ call[c].pc = "open"
    /\ call' = IF PathExists(saveFiles, saveDirExists, PathJoin(save_dir, call[c].filename))
               THEN [call EXCEPT ![c].pc = "read", ![c].handle = "linked"]
               ELSE Return(c, FALSE, <<>>, "Failed to open save file")
    /\ UNCHANGED <<saveDirExists, saveFiles>>
    /\ othersQuietC

\* read_save, lib.rs 56-57: read_to_string through the handle
ReadData(c) ==
    /\ call[c].op = "read" /\ call[c].pc = "read"
    /\ call' = Return(c, TRUE,
                      IF call[c].handle = "linked"
                      THEN ReadToString(saveFiles, PathJoin(save_dir, call[c].filename))
                      ELSE call[c].orphan, "")
    /\ UNCHANGED <<saveDirExists, saveFiles>>
    /\ othersQuietC

NextConc ==
    \E c \in Callers :
        \/ Invoke(c)
        \/ WriteEnsureDir(c)
        \/ WriteCreate(c)
        \/ WriteData(c)
        \/ DeleteCheck(c)
        \/ DeleteRemove(c)
        \/ ReadCheck(c)
        \/ ReadOpen(c)
        \/ ReadData(c)

SpecConc == InitConc /\ [][NextConc]_vars

\* ------------------------------------- save commands called with any file name
\* longest filename argument, in tokens
MaxNameLen == 3
NameTokens == {"/", "..", "file1", SaveSuffix}
\* the filename arguments: any text, separators and ".." included
PathArgs == SeqsUpTo(NameTokens, MaxNameLen)

\* a file's place on the disk is the list of names from the root down to it;
\* the directories there are: the root, where the executable is, and save_dir
IsDirOn(d, dirExists) == d = <<>> \/ (d = Components(save_dir) /\ dirExists)
Parent(d) == IF d = <<>> THEN <<>> ELSE SubSeq(d, 1, Len(d) - 1)

\* the operating system resolving a path from the directory it is at: a name
\* goes down, ".." goes up, every step but the last must be a directory
RECURSIVE WalkOn(_, _, _)
WalkOn(cs, at, dirExists) ==
    IF cs = <<>> THEN NoNode
    ELSE LET next == IF Head(cs) = <<"..">> THEN Parent(at) ELSE Append(at, Head(cs)) IN
         IF Len(cs) = 1
         THEN IF Head(cs) = <<"..">> \/ IsDirOn(next, dirExists) THEN NoNode ELSE next
         ELSE IF IsDirOn(next, dirExists) THEN WalkOn(Tail(cs), next, dirExists) ELSE NoNode

\* the regular file a path can name, NoNode when it names a directory or
\* leads through something that is not one
FileAt(p, dirExists) ==
    IF EndsWith(p, "/") THEN NoNode ELSE WalkOn(Components(p), <<>>, dirExists)

InsideFile == Append(Components(save_dir), <<"file1", SaveSuffix>>)
OutsideFile == << <<"file1", SaveSuffix>> >>

\* write_save, lines 62-73, with any filename
WriteAt(filename) ==
    LET file_path == PathJoin(save_dir, filename)
        node == FileAt(file_path, TRUE)
    IN /\ pathCall = NoCall
       /\ disk' = [dir |-> TRUE,
                   files |-> IF node # NoNode THEN disk.files \cup {node} ELSE disk.files]
       /\ touched' = node
       /\ pathCall' = [op |-> "write", filename |-> filename, ok |-> node # NoNode]
       /\ UNCHANGED <<saveVars, listenerVars, injectVars, mimeVars, callVars>>

\* read_save, lines 46-57, with any filename
ReadAt(filename) ==
    LET save_path == PathJoin(save_dir, filename)
        node == FileAt(save_path, disk.dir)
    IN /\ pathCall = NoCall
       /\ UNCHANGED disk
       /\ touched' = IF node \in disk.files THEN node ELSE NoNode
       /\ pathCall' = [op |-> "read", filename |-> filename, ok |-> node \in disk.files]
       /\ UNCHANGED <<saveVars, listenerVars, injectVars, mimeVars, callVars>>

\* delete_save, lines 78-85, with any filename
DeleteAt(filename) ==
    LET save_path == PathJoin(save_dir, filename)
        node == FileAt(save_path, disk.dir)
    IN /\ pathCall = NoCall
       /\ disk' = [disk EXCEPT !.files = @ \ {node}]
       /\ touched' = IF node \in disk.files THEN node ELSE NoNode
       /\ pathCall' = [op |-> "delete", filename |-> filename, ok |-> TRUE]
       /\ UNCHANGED <<saveVars, listenerVars, injectVars, mimeVars, callVars>>

\* one command, on a disk with or without the save directory, with or
\* without a save file in it and one beside it
InitPath ==
    /\ SaveInit
    /\ on_request = FALSE
    /\ ListenerQuiet
    /\ InjectQuiet
    /\ MimeQuiet
    /\ CallQuiet
    /\ pathCall = NoCall
    /\ touched = NoNode
    /\ \E d \in BOOLEAN, f \in SUBSET {InsideFile, OutsideFile} :
          /\ InsideFile \in f => d
          /\ disk = [dir |-> d, files |-> f]

NextPath ==
    \/ \E filename \in PathArgs : WriteAt(filename)
    \/ \E filename \in PathArgs : ReadAt(filename)
    \/ \E filename \in PathArgs : DeleteAt(filename)

SpecPath == InitPath /\ [][NextPath]_vars

\* ------------------------------------ the application as lib.rs configures it
\* lib.rs builds the plugin without a hook
InitApp ==
    /\ on_request = FALSE
    /\ ListenerBuilt
    /\ SaveQuiet
    /\ SideQuiet

\* the listener thread, and the save commands called after the thread has
\* ended on a failed bind
NextApp ==
    \/ Setup
    \/ Bind
    \/ BindFail
    \/ Accept
    \/ ResolvePath
    \/ LoadFile
    \/ SetHeaders
    \/ SkipHook
    \/ Respond200
    \/ Respond404
    \/ Respond500
    \/ EndIteration
    \/ (pc = "dead" /\ SaveNext)

SpecApp == InitApp /\ [][NextApp]_vars

\* ------------------------------------------------------ save commands: claims
SameFile == lastOp.filename = prevOp.filename
NotFound(r) == ~r.ok /\ r.err = "Save file not found"
Bare(filename) == ~EndsWith(filename, SaveSuffix)
\* a step of SpecSave in which a command ran
Ran(op) == lastOp'.op = op /\ prevOp' = lastOp

\* C2: a Read that directly follows a Write of the same key returns exactly
\* the content written, whatever the state of the save directory before the
\* Write: no directory, no file, or a file with other (also longer) content
\* left by an earlier Write.
C2_ReadReturnsLastWrite ==
    (lastOp.op = "read" /\ prevOp.op = "write" /\ SameFile)
        => (lastOp.ok /\ lastOp.content = prevOp.data)

\* C2 witness: Write(key, A), Write(key, B) with B shorter than A, Read(key) = B
C2_Witness ==
    /\ lastOp.op = "read" /\ prevOp.op = "write" /\ SameFile
    /\ prevOp.before # NoFile
    /\ Len(prevOp.data) < Len(prevOp.before)
    /\ lastOp.ok /\ lastOp.content = prevOp.data

\* C3: a Read that directly follows a Delete of the same key fails with
\* "Save file not found", whatever the key held; every Delete returns success
\* and leaves the key absent; a Delete of an absent key changes nothing on
\* disk, so a second Delete changes nothing.
C3_DeleteThenRead ==
    [][/\ (Ran("read") /\ lastOp.op = "delete" /\ lastOp'.filename = lastOp.filename)
            => NotFound(lastOp')
       /\ Ran("delete")
            => /\ lastOp'.ok
               /\ saveFiles'[lastOp'.filename] = NoFile
               /\ saveFiles[lastOp'.filename] = NoFile
                    => UNCHANGED <<saveFiles, saveDirExists>>
       /\ (Ran("delete") /\ lastOp.op = "delete" /\ lastOp'.filename = lastOp.filename)
            => UNCHANGED <<saveFiles, saveDirExists>>]_vars

\* C3 witness: Write(key, c), Delete(key), Read(key) = not found
C3_Witness ==
    /\ lastOp.op = "read" /\ prevOp.op = "delete" /\ SameFile
    /\ prevOp.before # NoFile
    /\ NotFound(lastOp)

C25_ListIsDirectoryContents ==
    lastOp.op = "list" =>
        /\ lastOp.ok
        /\ lastOp.names =
              {n \in FileNames : saveFiles[n] # NoFile /\ Len(n) = 2 /\ n[2] = SaveSuffix}
        /\ prevOp.op = "delete" => prevOp.filename \notin lastOp.names

\* C25 witness: with file1.rpgsave deleted and a file named file2 beside
\* file2.rpgsave, the listing is file2.rpgsave alone
C25_Witness ==
    /\ lastOp.op = "list"
    /\ prevOp.op = "delete" /\ prevOp.filename = <<"file1", SaveSuffix>> /\ prevOp.before # NoFile
    /\ saveFiles[<<"file2">>] # NoFile
    /\ lastOp.names = {<<"file2", SaveSuffix>>}

\* C27: the save directory is created lazily, by list_saves and write_save
\* only: after either returns Ok the directory exists.  read_save and
\* delete_save never create the directory or a file; with the directory
\* absent read_save fails with the not-found error, delete_save succeeds, and
\* both leave the file system as it was.
C27_DirectoryCreatedLazily ==
    [][/\ (Ran("list") \/ Ran("write")) => (lastOp'.ok /\ saveDirExists')
       /\ Ran("read") =>
            /\ UNCHANGED <<saveDirExists, saveFiles>>
            /\ ~saveDirExists => NotFound(lastOp')
       /\ Ran("delete") =>
            /\ UNCHANGED saveDirExists
            /\ \A n \in FileNames : saveFiles[n] = NoFile => saveFiles'[n] = NoFile
            /\ ~saveDirExists => (lastOp'.ok /\ UNCHANGED saveFiles)]_vars

\* C27 witness: read_save, then delete_save, before anything created the
\* directory: not found, then Ok, and still no directory
C27_Witness ==
    /\ prevOp.op = "read" /\ NotFound(prevOp)
    /\ lastOp.op = "delete" /\ lastOp.ok
    /\ ~saveDirExists
    /\ \A n \in FileNames : saveFiles[n] = NoFile

\* C27, the creating side: list_saves as the first command made the directory
C27_WitnessCreated == prevOp.op = "none" /\ lastOp.op = "list" /\ saveDirExists

Count(seq, x) == Cardinality({i \in 1..Len(seq) : seq[i] = x})
IsPrefix(a, b) == Len(a) <= Len(b) /\ SubSeq(b, 1, Len(a)) = a
HasLongCache(h) == "Cache-Control" \in DOMAIN h /\ h["Cache-Control"] = LongCache
\* the path the loop hands to load_external_file
LoaderPath == PathJoin(external_folder, finalPath)
\* the loop body has run to its end for the request in reqUrl
Handled == pc = "done"

\* C1: at most one response is sent for a request, and when the loop body
\* ends exactly one has been: 500 and a plain-text error when the target
\* does not parse; else 404 and plain-text "Not Found" when the resolved path
\* loads no regular file; else 200 with the file's bytes, transformed when
\* the transformer applies.
C1_OneResponseByCase ==
    /\ Count(events, "send") <= 1
    /\ ~Handled => resp = NoResp
    /\ Handled =>
        /\ Count(events, "send") = 1
        /\ LET path_result == ParseUriPath(reqUrl)
               file == load_external_file(PathJoin(external_folder,
                           FinalPath(PercentDecode(path_result.val))))
           IN IF ~path_result.ok
              THEN /\ resp.status = 500
                   /\ resp.headers = PlainText
                   /\ resp.body = <<"Internal Server Error - URI Parse Error">>
              ELSE IF ~file.some
              THEN /\ resp.status = 404
                   /\ resp.headers = PlainText
                   /\ resp.body = <<"Not Found">>
              ELSE /\ resp.status = 200
                   /\ resp.body = IF transformed THEN inject_polyfills(file.content)
                                  ELSE file.content

\* C1 witness: a request answered 200 with a transformed HTML document
C1_Witness ==
    /\ Handled /\ resp.status = 200 /\ transformed
    /\ Count(resp.body, Payload) = 1

\* C6: whenever the loop loads a file, the path it handed to the loader is
\* the asset root joined with a relative path, and the file lies under the
\* asset root.
C6_LoadsOnlyUnderRoot ==
    asset.some =>
        /\ ~StartsWith(finalPath, "/")
        /\ IsPrefix(RootComponents, Resolve(LoaderPath))

\* C8: a 200 response is transformed exactly when the content type is
\* text/html and the name of the resolved path ends in an HTML extension
\* (html or htm, as the MIME table has them); any other body is the file's
\* bytes.
C8_TransformedIffHtml ==
    (Handled /\ resp.status = 200) =>
        /\ transformed <=>
             (/\ asset.mime_type = "text/html"
              /\ Lower(Extension(FileName(finalPath))) \in {"html", "htm"})
        /\ ~transformed => resp.body = FileBytes(Resolve(LoaderPath))

\* C9 as written: with or without a hook, a response carries the long-lived
\* caching directive exactly when it answers an audio or image asset.
C9_Original ==
    Handled => (HasLongCache(resp.headers) <=> (resp.status = 200 /\ IsMedia(asset.mime_type)))

\* C9 amended: the header mapping as it stands before the hook runs carries
\* the directive exactly for audio and image assets, and so does every
\* response sent when no hook is configured; 404 and 500 never carry it.
C9_CacheBeforeHook ==
    /\ pc = "hook" => (HasLongCache(headers) <=> IsMedia(asset.mime_type))
    /\ (Handled /\ ~on_request) =>
          (HasLongCache(resp.headers) <=> (resp.status = 200 /\ IsMedia(asset.mime_type)))
    /\ (Handled /\ resp.status # 200) => ~HasLongCache(resp.headers)

\* C9 witness: no hook, an audio asset sent with the directive
C9_Witness ==
    /\ Handled /\ ~on_request /\ resp.status = 200
    /\ asset.mime_type = "audio/ogg"
    /\ HasLongCache(resp.headers)

\* C10 as written: with a hook configured, every handled request saw the
\* hook run exactly once, after the default headers and before the response.
C10_Original ==
    (Handled /\ on_request) => events = <<"headers", "hook", "send">>

\* C10 amended: with a hook configured, a request answered 200 saw the hook
\* run exactly once, after the default headers and before the response; a
\* request answered 404 or 500 saw no default headers and no hook; without a
\* hook none runs.
C10_HookOncePer200 ==
    /\ Count(events, "hook") <= (IF on_request THEN 1 ELSE 0)
    /\ (Handled /\ on_request) =>
          IF resp.status = 200
          THEN events = <<"headers", "hook", "send">>
          ELSE resp.status \in {404, 500} /\ events = <<"send">>

\* C10 witness: a hook configured, a 200 sent after its single run
C10_Witness ==
    /\ Handled /\ on_request /\ resp.status = 200
    /\ events = <<"headers", "hook", "send">>

\* --------------------------------------------- listener: errors and targets
\* the path of a target that parsed, and what that path names on the disk
ParsedPath == ParseUriPath(reqUrl)
Node == Resolve(LoaderPath)
IsMissing(node) == ~IsDir(node) /\ ~IsFile(node)
IsUnreadable(node) == IsFile(node) /\ ~CanRead(node)
NotFoundResponse == [status |-> 404, body |-> <<"Not Found">>, headers |-> PlainText]

\* C11: a target that parsed and whose resolved path names nothing, a
\* directory, or a file that cannot be opened or read is answered with the
\* one Not Found response: status 404, body "Not Found", text/plain.  The
\* three cases give the same response, none gives a 500, and in none does
\* the loop stop.
C11_SameNotFound ==
    /\ (Handled /\ ParsedPath.ok /\ (IsMissing(Node) \/ IsDir(Node) \/ IsUnreadable(Node)))
          => resp = NotFoundResponse
    /\ pc = "respond404" => (IsMissing(Node) \/ IsDir(Node) \/ IsUnreadable(Node))

\* C11 witness: a file that exists and cannot be read, answered Not Found
C11_Witness ==
    /\ Handled /\ ParsedPath.ok /\ IsUnreadable(Node)
    /\ resp = NotFoundResponse

\* C11, the other two cases: a directory, and a name that is not there
C11_WitnessDirectory == Handled /\ ParsedPath.ok /\ IsDir(Node) /\ resp = NotFoundResponse
C11_WitnessMissing == Handled /\ ParsedPath.ok /\ IsMissing(Node) /\ resp = NotFoundResponse

IndexFile == Append(RootComponents, <<"index.html">>)

\* C12: a target whose decoded path is exactly "/" and a target whose path is
\* empty both resolve to index.html and are answered with the same asset:
\* the index document of the asset root, transformed.
C12_RootAndEmptyAreIndex ==
    (Handled /\ ParsedPath.ok /\ PercentDecode(ParsedPath.val) \in {<<>>, <<"/">>}) =>
        /\ finalPath = <<"index.html">>
        /\ Node = IndexFile
        /\ resp.status = 200
        /\ resp.body = inject_polyfills(FileBytes(IndexFile))

\* C12 witness: a target with an empty path, answered with the index document
C12_Witness ==
    /\ Handled /\ ParsedPath.ok /\ ParsedPath.val = <<>>
    /\ finalPath = <<"index.html">> /\ resp.status = 200
    /\ Count(resp.body, "game") = 1

\* C12, the other case: the path "/"
C12_WitnessRoot ==
    /\ Handled /\ ParsedPath.ok /\ ParsedPath.val = <<"/">>
    /\ finalPath = <<"index.html">> /\ resp.status = 200

\* the target with every percent-encoded character written out
RECURSIVE Literal(_)
Literal(url) ==
    IF url = <<>> THEN <<>>
    ELSE <<CASE Head(url) = "%2F" -> "/"
             [] Head(url) = "%20" -> " "
             [] Head(url) = "%3F" -> "?"
             [] OTHER -> Head(url)>> \o Literal(Tail(url))

Encoded == {"%2F", "%20", "%3F"}
HasEncoded(s) == \E i \in 1..Len(s) : s[i] \in Encoded

\* what a target is answered with: the root-relative path, status and body
Outcome(url) ==
    LET path_result == ParseUriPath(url)
        final_path == FinalPath(PercentDecode(path_result.val))
        file == load_external_file(PathJoin(external_folder, final_path))
    IN IF ~path_result.ok
       THEN [path |-> <<>>, status |-> 500,
             body |-> <<"Internal Server Error - URI Parse Error">>]
       ELSE IF ~file.some
       THEN [path |-> final_path, status |-> 404, body |-> <<"Not Found">>]
       ELSE [path |-> final_path, status |-> 200,
             body |-> IF InjectCondition(file.mime_type, final_path)
                      THEN inject_polyfills(file.content) ELSE file.content]

\* the request in hand was answered as the given target is
AnsweredAs(url) ==
    /\ resp.status = Outcome(url).status
    /\ resp.body = Outcome(url).body
    /\ resp.status # 500 => finalPath = Outcome(url).path

\* the target with the encoded characters of its path written out, the query
\* as it is
LiteralTarget(url) ==
    LET path == BeforeQuery(url) IN
    Literal(path) \o SubSeq(url, Len(path) + 1, Len(url))

\* C13 as written: a target whose path holds percent-encoded characters
\* resolves to the same root-relative path and is answered as the target
\* with those characters written literally.
C13_Original ==
    (Handled /\ ParsedPath.ok /\ HasEncoded(ParsedPath.val)) => AnsweredAs(LiteralTarget(reqUrl))

\* C13: a target whose path holds percent-encoded separators, and no other
\* encoded character, resolves to the same root-relative path and is
\* answered as the target with the separators written literally.  An
\* encoded question mark or space is part of the file name looked up; written
\* literally the question mark ends the path and the space makes the target
\* unparseable, so the literal target is answered differently.
C13_EncodedSeparatorAsLiteral ==
    /\ (Handled /\ ParsedPath.ok /\ HasEncoded(ParsedPath.val)
          /\ \A i \in 1..Len(ParsedPath.val) : ParsedPath.val[i] \in Encoded
                                                  => ParsedPath.val[i] = "%2F")
          => AnsweredAs(LiteralTarget(reqUrl))
    /\ (Handled /\ ParsedPath.ok /\ HasEncoded(ParsedPath.val))
          => finalPath = FinalPath(Literal(ParsedPath.val))

\* C13 witness: an encoded separator in the path, answered with a file as the
\* literal target is
C13_Witness ==
    /\ Handled /\ ParsedPath.ok /\ Contains(ParsedPath.val, "%2F")
    /\ resp.status = 200 /\ AnsweredAs(LiteralTarget(reqUrl))

\* ------------------------------------------------- listener: loop and state
\* the thread is in the request loop
Serving == pc \notin {"built", "unbound", "dead"}

\* C15: once bound, no request ends the loop: from every position in the
\* loop body the thread stays in the loop, every response, the 500 and the
\* 404 among them, is followed by the end of the loop body, and the end of
\* the loop body by the wait for the next request.
C15_LoopSurvivesRequests ==
    [][/\ Serving => Serving'
       /\ pc \in {"send", "respond404", "respond500"} => pc' = "done"
       /\ Handled => (pc' = "accept" /\ prevStatus' = resp.status)]_vars

\* C15 witness: a request answered with a file after the request before it
\* was answered 500
C15_Witness == Handled /\ prevStatus = 500 /\ resp.status = 200

\* C15, also after a 404
C15_WitnessAfter404 == Handled /\ prevStatus = 404 /\ resp.status = 200

\* C17: when the header mapping holds an entry whose name or value cannot be
\* encoded, that entry alone is left out: the response goes out with status
\* 200, the whole body, and every other entry of the mapping.
C17_OnlyInvalidHeaderDropped ==
    (Handled /\ resp.status = 200) =>
        /\ resp.body = asset.content
        /\ DOMAIN resp.headers \subseteq DOMAIN headers
        /\ \A k \in DOMAIN headers :
              IF ValidHeader(k, headers[k])
              THEN k \in DOMAIN resp.headers /\ resp.headers[k] = headers[k]
              ELSE k \notin DOMAIN resp.headers

\* C17 witness: a hook wrote a header that cannot be encoded; the response
\* has the body and the five default headers of an image
C17_Witness ==
    /\ Handled /\ resp.status = 200
    /\ \E k \in DOMAIN headers : ~ValidHeader(k, headers[k])
    /\ resp.body = <<"a.png", "bytes">>
    /\ Cardinality(DOMAIN resp.headers) = 5

\* the keys the hook wrote
WrittenKeys(ws) == {ws[i][1] : i \in 1..Len(ws)}

\* the value written last under a key: by the hook if it wrote the key, else
\* the one given
LastWritten(ws, k, default) ==
    LET at == {i \in 1..Len(ws) : ws[i][1] = k} IN
    IF at = {} THEN default
    ELSE ws[CHOOSE i \in at : \A j \in at : j <= i][2]

\* a file was served: the mapping is as the hook left it, the response is out
Served == Handled /\ resp.status = 200

\* C26 as written: the hook cannot remove a header: every default key is
\* still in the mapping after the hook, and the value emitted under it is the
\* last one written, the hook's if it wrote the key, the default otherwise.
C26_Original ==
    Served =>
        LET d == DefaultHeaders(asset.mime_type) IN
        \A k \in DOMAIN d :
            /\ k \in DOMAIN headers
            /\ k \in DOMAIN resp.headers
            /\ resp.headers[k] = LastWritten(hookWrote, k, d[k])

\* C26 amended: every default key is still in the mapping after the hook, and
\* the mapping holds under each key the value written last.  That value is
\* the one emitted when it can be encoded as a wire header; when the value
\* written last cannot be encoded nothing is emitted under the key, also if
\* the key is a default one.
C26_HookCannotRemove ==
    Served =>
        LET d == DefaultHeaders(asset.mime_type)
            last(k) == LastWritten(hookWrote, k, IF k \in DOMAIN d THEN d[k] ELSE "")
        IN /\ DOMAIN headers = DOMAIN d \cup WrittenKeys(hookWrote)
           /\ \A k \in DOMAIN headers :
                 /\ headers[k] = last(k)
                 /\ IF ValidHeader(k, last(k))
                    THEN k \in DOMAIN resp.headers /\ resp.headers[k] = last(k)
                    ELSE k \notin DOMAIN resp.headers
           /\ DOMAIN resp.headers \subseteq DOMAIN headers

\* C26 witness: the hook wrote over the content type of an image; the value
\* emitted is the hook's and the caching directive is still there
C26_Witness ==
    /\ Served
    /\ asset.mime_type = "image/png"
    /\ hookWrote = << <<"Content-Type", "text/plain">> >>
    /\ resp.headers["Content-Type"] = "text/plain"
    /\ "Cache-Control" \in DOMAIN resp.headers
    /\ Cardinality(DOMAIN resp.headers) = 5

\* C26, the default header that is not emitted: the hook wrote a content type
\* that cannot be encoded
C26_WitnessDropped ==
    /\ Served
    /\ "Content-Type" \in DOMAIN headers
    /\ "Content-Type" \notin DOMAIN resp.headers

\* the wire headers a 200 can carry: the default ones of the content type,
\* each as built or as a hook wrote it over, and what else a hook wrote
HeadersFor(mime_type, h) ==
    LET d == DefaultHeaders(mime_type) IN
    /\ \A k \in DOMAIN d :
          \/ k \in DOMAIN h
          \/ on_request /\ \E w \in HookWrites : w[1] = k /\ ~ValidHeader(k, w[2])
    /\ \A k \in DOMAIN h :
          \/ k \in DOMAIN d /\ h[k] = d[k]
          \/ on_request /\ <<k, h[k]>> \in HookWrites /\ ValidHeader(k, h[k])
    /\ Cardinality({k \in DOMAIN h : k \notin DOMAIN d \/ h[k] # d[k]}
                      \cup (DOMAIN d \ DOMAIN h)) <= MaxHookWrites

\* the response is one the target can be answered with: what the target, the
\* configuration and the disk determine, and what the hook chooses to write
IsResponseTo(url, r) ==
    LET o == Outcome(url) IN
    /\ r.status = o.status
    /\ r.body = o.body
    /\ IF o.status = 200
       THEN HeadersFor(get_mime_type(PathJoin(external_folder, o.path)), r.headers)
       ELSE r.headers = PlainText

\* C18: the response to a request is determined by its target, the
\* configuration and the disk, whatever requests were handled before it: the
\* same target is answered the same after no request, after a 200, a 404 or
\* a 500, and at the wait for a request nothing of the last one is left.
C18_ResponseIgnoresHistory ==
    /\ Handled => IsResponseTo(reqUrl, resp)
    /\ pc = "accept" => (/\ reqUrl = NoUrl /\ finalPath = <<>> /\ asset = NoAsset
                         /\ ~transformed /\ headers = NoHeaders /\ events = <<>>
                         /\ resp = NoResp)

\* C18 witness: a file served after an earlier request was answered with
\* another file
C18_Witness ==
    /\ Handled /\ prevStatus = 200 /\ resp.status = 200
    /\ IsResponseTo(reqUrl, resp)

\* the positions of the loop body between accepting a request and answering it
InHand == pc \in {"resolve", "load", "headers", "hook", "send", "respond404", "respond500"}

\* C21: the listener has one request in hand at a time: a request is taken
\* only at the wait for requests, where nothing of an earlier request is in
\* resolution, loading, transformation or the hook; the request in hand is
\* answered before the wait is reached again; and the hook has run at most
\* once for the request in hand.
C21_OneRequestAtATime ==
    /\ [](/\ Count(events, "hook") <= 1
          /\ InHand => (reqUrl # NoUrl /\ resp = NoResp))
    /\ [][reqUrl' # reqUrl =>
             \/ pc = "accept" /\ pc' = "resolve" /\ reqUrl = NoUrl
                  /\ finalPath = <<>> /\ asset = NoAsset /\ events = <<>> /\ resp = NoResp
             \/ pc = "done" /\ pc' = "accept" /\ reqUrl' = NoUrl /\ Count(events, "send") = 1
                  /\ resp # NoResp]_vars
    /\ [][(pc' = "accept" /\ pc # "accept") => (pc = "unbound" \/ (pc = "done" /\ resp # NoResp))]_vars

\* C21 witness: a second request is in the hook, the first one answered before
C21_Witness ==
    /\ pc = "hook" /\ prevStatus = 200
    /\ events = <<"headers">> /\ resp = NoResp

\* --------------------------------------------------------- listener: bind
\* C16: when the bind fails the listener thread ends and no request is ever
\* answered; the plugin's setup has reported success all the same; and the
\* save commands work as they do without a listener: a write stores its
\* data, a read after it returns the data, a read after a delete finds no
\* file.
C16_BindFailureIsContained ==
    /\ [](pc = "dead" =>
            /\ setupResult = "Ok"
            /\ NoRequestYet
            /\ (lastOp.op = "write" =>
                  lastOp.ok /\ saveFiles[SaveEntry(PathJoin(save_dir, lastOp.filename))] = lastOp.data)
            /\ (lastOp.op = "read" /\ prevOp.op = "write" /\ SameFile) =>
                  (lastOp.ok /\ lastOp.content = prevOp.data)
            /\ (lastOp.op = "read" /\ prevOp.op = "delete" /\ SameFile) => NotFound(lastOp))
    /\ [][pc = "dead" => (pc' = "dead" /\ UNCHANGED listenerVars)]_vars
    /\ [][pc = "unbound" => (pc' \in {"accept", "dead"} /\ setupResult' = "Ok")]_vars

\* C16 witness: the bind failed, and a save written after it is read back
C16_Witness ==
    /\ pc = "dead" /\ setupResult = "Ok" /\ resp = NoResp
    /\ lastOp.op = "read" /\ prevOp.op = "write" /\ SameFile
    /\ lastOp.ok /\ lastOp.content = prevOp.data /\ lastOp.content # <<>>

\* ------------------------------------------------------- transformer: claims
\* the text with one insertion of the payload taken out again, if there is
\* exactly one way the output is the text plus one insertion
OneInsertion(text, out) ==
    \E i \in 0..Len(text) :
        \E ins \in {<<Payload, "\n">>, <<"\n", Payload>>} :
            out = SubSeq(text, 1, i) \o ins \o SubSeq(text, i + 1, Len(text))

\* C7: for a document of valid text, whatever number of head and body
\* markers it holds, the output holds exactly one copy of the payload and is
\* the document with that one insertion.
C7_ExactlyOneInsertion ==
    (docOut # NoDoc /\ ~Contains(doc, BadByte)) =>
        /\ Count(docOut, Payload) = 1
        /\ OneInsertion(doc, docOut)
\* the text without what the transformer inserts
RECURSIVE WithoutInserted(_)
WithoutInserted(out) ==
    IF out = <<>> THEN <<>>
    ELSE (IF Head(out) \in {Payload, "\n"} THEN <<>> ELSE <<Head(out)>>) \o WithoutInserted(Tail(out))

\* the payload and a line break stand immediately before position i
PayloadBefore(out, i) == i > 2 /\ out[i - 2] = Payload /\ out[i - 1] = "\n"
\* a line break and the payload stand immediately after position i
PayloadAfter(out, i) == i + 2 <= Len(out) /\ out[i + 1] = "\n" /\ out[i + 2] = Payload
\* the payload and a line break open the text
PayloadFirst(out) == Len(out) >= 2 /\ out[1] = Payload /\ out[2] = "\n"
Markers(out, tok) == {i \in 1..Len(out) : out[i] = tok}

\* C24: the insertion point follows strict precedence.  With a closing head
\* marker in the document the payload stands immediately before the closing
\* head marker and nowhere else: not at a body marker, not at the start.
\* Without one but with an opening body marker it stands immediately after
\* the body marker and nowhere else.  With neither it stands before the whole
\* document.  Apart from the payload the text is unchanged.
C24_InsertionPrecedence ==
    docOut # NoDoc =>
        LET text == FromUtf8Lossy(doc) IN
        /\ WithoutInserted(docOut) = text
        /\ IF Contains(text, HeadClose)
           THEN /\ \A i \in Markers(docOut, HeadClose) : PayloadBefore(docOut, i)
                /\ Count(docOut, Payload) = Count(text, HeadClose)
                /\ \A i \in Markers(docOut, BodyOpen) : ~PayloadAfter(docOut, i)
           ELSE IF Contains(text, BodyOpen)
           THEN /\ \A i \in Markers(docOut, BodyOpen) : PayloadAfter(docOut, i)
                /\ Count(docOut, Payload) = Count(text, BodyOpen)
                /\ ~PayloadFirst(docOut)
           ELSE docOut = <<Payload, "\n">> \o text

\* C24 witness: a document with a body marker before its closing head marker;
\* the payload went before the closing head marker only
C24_Witness ==
    /\ doc = <<BodyOpen, "text", HeadClose>>
    /\ docOut = <<BodyOpen, "text", Payload, "\n", HeadClose>>

\* C24, the other two cases
C24_WitnessBody == doc = <<"text", BodyOpen>> /\ docOut = <<"text", BodyOpen, "\n", Payload>>
C24_WitnessNeither == doc = <<"text">> /\ docOut = <<Payload, "\n", "text">>

\* -------------------------------------------------------- MIME table: claims
ContentTypes == {MimeOf(e) : e \in TableExtensions} \cup {"application/octet-stream"}

\* C14: the lookup gives every extension one content type, the one of the
\* extension's lower-case spelling however the extension is spelled: an
\* extension the table lacks, the empty extension and a path without
\* extension get application/octet-stream; rpgmvo gets audio/ogg, rpgmvm
\* audio/mp4, rpgmvp image/png, rpgmvw audio/wav.
C14_MimeByLowercaseExtension ==
    mimeOut # NoMime =>
        /\ mimeOut \in ContentTypes
        /\ mimeIn \in {"", NoExt} => mimeOut = "application/octet-stream"
        /\ \A base \in TableExtensions \cup UnknownExtensions, casing \in Casings :
              mimeIn = Spelled(base, casing) =>
                  /\ mimeOut = MimeOf(base)
                  /\ base \in UnknownExtensions => mimeOut = "application/octet-stream"
                  /\ base \in TableExtensions => mimeOut # "application/octet-stream"
                  /\ base = "rpgmvo" => mimeOut = "audio/ogg"
                  /\ base = "rpgmvm" => mimeOut = "audio/mp4"
                  /\ base = "rpgmvp" => mimeOut = "image/png"
                  /\ base = "rpgmvw" => mimeOut = "audio/wav"

\* C14 witness: a legacy extension written in capitals
C14_Witness == mimeIn = "RPGMVO" /\ mimeOut = "audio/ogg"

\* ------------------------------------------- concurrent save commands: claims
Done(c) == call[c].pc = "done"
BothDone(op) == \A c \in Callers : Done(c) /\ call[c].op = op

\* C19: when two Writes of the same key run concurrently, one with A and one
\* with B, then once both have returned the file holds exactly A or exactly
\* B, never a mixture of the two.
C19_LastWriteWins ==
    BothDone("write") => \E c \in Callers : saveFiles[ConcName] = call[c].data

\* C20: a Delete never reports an error because the file is missing,
\* whatever runs beside it: two concurrent Deletes of the same key both
\* return success, and the file is absent afterwards.
C20_DeleteNeverFails ==
    /\ \A c \in Callers : (Done(c) /\ call[c].op = "delete") => call[c].ok
    /\ BothDone("delete") => saveFiles[ConcName] = NoFile

Other(c) == CHOOSE d \in Callers : d # c
IsProperPrefix(a, b) == Len(a) < Len(b) /\ SubSeq(b, 1, Len(a)) = a

\* C22: a Read that runs beside a Write(key, B) over content A may succeed
\* with content that is neither A nor B: the Write cuts the file to length 0
\* before it writes, in place.  What such a Read returns is A, B, or a proper
\* prefix of B, the empty text among them.
C22_ReadBesideWrite ==
    \A c \in Callers :
        (/\ Done(c) /\ call[c].op = "read" /\ call[c].ok
         /\ call[Other(c)].op = "write" /\ found # NoFile)
            => \/ call[c].content = found
               \/ call[c].content = call[Other(c)].data
               \/ IsProperPrefix(call[c].content, call[Other(c)].data)

\* C22 witness: over content A a Read beside Write(key, B) has returned the
\* empty text, which is neither A nor B
C22_Witness ==
    \E c \in Callers :
        /\ Done(c) /\ call[c].op = "read" /\ call[c].ok
        /\ call[Other(c)].op = "write" /\ found # NoFile /\ found # <<>>
        /\ call[c].content = <<>>
        /\ call[c].content # found /\ call[c].content # call[Other(c)].data

\* C23: a Read ends in one of two ways, the text of the file or the error
\* "Save file not found", also beside a Delete of the same key: then it
\* returns the content that was stored or that error, never another error.
C23_ReadTwoOutcomes ==
    \A c \in Callers :
        (Done(c) /\ call[c].op = "read") =>
            IF call[c].ok
            THEN call[Other(c)].op = "delete" => call[c].content = found
            ELSE call[c].err = "Save file not found"

\* --------------------------------------------- save commands: any file name
InSaveDir(node) == Len(node) = Len(Components(save_dir)) + 1
                   /\ SubSeq(node, 1, Len(node) - 1) = Components(save_dir)

\* C28: whatever the filename argument is, separators, ".." and absolute
\* paths included, the file that write_save creates, read_save opens or
\* delete_save removes is an entry directly inside the save directory.
C28_OnlyInsideSaveDir ==
    touched # NoNode => InSaveDir(touched)
====
